---- MODULE Spec2Model ----
(***************************************************************************)
(* Model of analyze-veteran-data.py: the name normaliser camel_to_kebab,   *)
(* the table builder make_output_for_metric and the driver main.           *)
(*                                                                         *)
(* Python strings are sequences of one-character strings, so that          *)
(* iteration over a name and string concatenation are what they are in the *)
(* source.  A float is NaN, +inf, -inf or an exact rational (rounding is   *)
(* not modelled).  A data frame is a function from column name to column,  *)
(* a column being a sequence of cells.                                     *)
(***************************************************************************)
EXTENDS Integers, Sequences, FiniteSets

VARIABLES
    name, kebab, kpc,                    \* camel_to_kebab: argument, result, position
    df, tie, dirs, files,                \* data frame, sort tie rule of the build, filesystem
    args, out_df, ret, bpc,              \* make_output_for_metric: arguments, table, result, position
    inputExists, pc, idx, written_all, written_adult,
    console, calls, run, firstRun        \* main

kebabVars == <<name, kebab, kpc>>
fsVars    == <<dirs, files>>
buildVars == <<args, out_df, ret, bpc>>
mainVars  == <<inputExists, pc, idx, written_all, written_adult, console, calls, run, firstRun>>
vars      == <<name, kebab, kpc, df, tie, dirs, files, args, out_df, ret, bpc,
               inputExists, pc, idx, written_all, written_adult, console, calls, run, firstRun>>

----------------------------------------------------------------------------
(* Bounds *)
MaxNameLen == 4
MaxRows    == 2
MaxRuns    == 2

----------------------------------------------------------------------------
(* Characters and strings *)

LowerLetters ==
    <<"a","b","c","d","e","f","g","h","i","j","k","l","m",
      "n","o","p","q","r","s","t","u","v","w","x","y","z">>
UpperLetters ==
    <<"A","B","C","D","E","F","G","H","I","J","K","L","M",
      "N","O","P","Q","R","S","T","U","V","W","X","Y","Z">>

LetterIndex(ch) == CHOOSE k \in 1..26 : UpperLetters[k] = ch

\* str.isupper() of a one-character string
isupper(ch) == \E k \in 1..26 : UpperLetters[k] = ch

islower(ch) == \E k \in 1..26 : LowerLetters[k] = ch

\* a plausible slip: the capital is kept as it is
lower_kept(ch) == ch

\* str.lower() of a one-character string
lower(ch) == IF isupper(ch) THEN LowerLetters[LetterIndex(ch)] ELSE ch

S_state     == <<"s","t","a","t","e">>
S_pop       == <<"p","o","p","u","l","a","t","i","o","n">>
S_adultPop  == <<"a","d","u","l","t","P","o","p","u","l","a","t","i","o","n">>
S_Per100k   == <<"P","e","r","1","0","0","k">>
S_Pct       == <<"P","c","t">>
S_Adults    == <<"A","d","u","l","t","s">>
S_rate      == <<"-","r","a","t","e">>
S_adultRate == <<"-","a","d","u","l","t","-","r","a","t","e">>
S_csv       == <<".","c","s","v">>

M_allVeterans       == <<"a","l","l","V","e","t","e","r","a","n","s">>
M_peacetimeVeterans == <<"p","e","a","c","e","t","i","m","e","V","e","t","e","r","a","n","s">>
M_wartimeVeterans   == <<"w","a","r","t","i","m","e","V","e","t","e","r","a","n","s">>
M_ww2               == <<"w","w","2">>
M_koreanWar         == <<"k","o","r","e","a","n","W","a","r">>
M_vietnamWar        == <<"v","i","e","t","n","a","m","W","a","r">>
M_gulfWar           == <<"g","u","l","f","W","a","r">>

METRICS ==
    <<M_allVeterans, M_peacetimeVeterans, M_wartimeVeterans, M_ww2,
      M_koreanWar, M_vietnamWar, M_gulfWar>>

MetricSet == { METRICS[k] : k \in 1..Len(METRICS) }

----------------------------------------------------------------------------
(* camel_to_kebab *)

RECURSIVE KebabLoop(_, _, _)
\* the for loop of camel_to_kebab from character i on, out being out_chars
KebabLoop(nm, i, out) ==
    IF i > Len(nm) THEN out
    ELSE LET ch == nm[i] IN
         IF isupper(ch)
         THEN LET hy == IF out # <<>> /\ out[Len(out)] # "-"
                        THEN Append(out, "-") ELSE out
              IN KebabLoop(nm, i + 1, Append(hy, lower(ch)))
         ELSE KebabLoop(nm, i + 1, Append(out, ch))

camel_to_kebab(nm) == KebabLoop(nm, 1, <<>>)

\* characters the names of the normaliser's runs are drawn from
KebabAlphabet == {"a", "w", "V", "W", "-", "2"}

NamesUpTo(n) == UNION { [1..k -> KebabAlphabet] : k \in 0..n }

KebabInit ==
    /\ name \in NamesUpTo(MaxNameLen) \cup MetricSet
    /\ kebab = <<>>
    /\ kpc = "call"

Normalize ==
    /\ kpc = "call"
    /\ kebab' = camel_to_kebab(name)
    /\ kpc' = "done"
    /\ UNCHANGED name

----------------------------------------------------------------------------
(* Cells and floats *)

RECURSIVE GCD(_, _)
GCD(a, b) == IF b = 0 THEN a ELSE GCD(b, a % b)

Abs(x) == IF x < 0 THEN -x ELSE x

\* a cell as read from the CSV: a number n/d, an empty cell, or other text
Num(n, d) == [k |-> "num", n |-> n, d |-> d]
Missing   == [k |-> "missing", n |-> 0, d |-> 1]
Text      == [k |-> "text", n |-> 0, d |-> 1]

\* a float: NaN, +inf, -inf, or the rational n/d in lowest terms, d > 0
NaN    == [k |-> "nan", n |-> 0, d |-> 1]
PosInf == [k |-> "inf", n |-> 0, d |-> 1]
NegInf == [k |-> "ninf", n |-> 0, d |-> 1]
Fin(n, d) ==
    LET g == GCD(Abs(n), Abs(d))
        s == IF d < 0 THEN -1 ELSE 1
    IN [k |-> "fin", n |-> s * (n \div g), d |-> s * (d \div g)]

Zero == Fin(0, 1)

\* pd.to_numeric(cell, errors="coerce"): text and empty cells become NaN
to_numeric(c) == IF c.k = "num" THEN Fin(c.n, c.d) ELSE NaN

\* Series.fillna(v), element-wise
fillna(x, v) == IF x.k = "nan" THEN v ELSE x

\* a plausible slip: rounding down instead of towards zero
astype_int_floor(x) == IF x.n >= 0 THEN x.n \div x.d ELSE -((-x.n + x.d - 1) \div x.d)

\* Series.astype(int) of a finite float: truncation towards zero
astype_int(x) == IF x.n >= 0 THEN x.n \div x.d ELSE -((-x.n) \div x.d)

\* float division a / b of a finite or NaN a by a finite or NaN b (numpy:
\* x/0 is +inf or -inf by the sign of x, 0/0 is NaN, nothing is raised)
FDiv(a, b) ==
    IF a.k = "nan" \/ b.k = "nan" THEN NaN
    ELSE IF b.n = 0
         THEN IF a.n > 0 THEN PosInf ELSE IF a.n < 0 THEN NegInf ELSE NaN
    ELSE Fin(a.n * b.d, a.d * b.n)

\* float product x * c with an integer c > 0
FMul(x, c) ==
    IF x.k # "fin" THEN x
    ELSE LET g == GCD(c, x.d) IN Fin(x.n * (c \div g), x.d \div g)

\* float quotient x / c with an integer c > 0
FDivInt(x, c) ==
    IF x.k # "fin" THEN x
    ELSE LET g == GCD(Abs(x.n), c) IN Fin(x.n \div g, x.d * (c \div g))

\* x > y for floats other than NaN
FGreater(x, y) ==
    CASE x.k = "inf"  -> y.k # "inf"
      [] x.k = "ninf" -> FALSE
      [] OTHER        -> \/ y.k = "ninf"
                         \/ y.k = "fin" /\ x.n * y.d > y.n * x.d

----------------------------------------------------------------------------
(* Data frames *)

NRows(d) == IF DOMAIN d = {} THEN 0 ELSE Len(d[CHOOSE c \in DOMAIN d : TRUE])

\* a plausible slip: the percentage scaled by 1000
PctOf_wrong(m, p) == FMul(FDiv(m, p), 1000)

\* line 64: (metric_vals / pop) * 100000, one row
Per100kOf(m, p) == FMul(FDiv(m, p), 100000)

\* line 65: (metric_vals / pop) * 100, one row
PctOf(m, p) == FMul(FDiv(m, p), 100)

\* row i stands before row j after sort_values(by=key, ascending=False):
\* greater key first, NaN keys last in input order, equal keys in the order
\* t of the sorting routine of the build
SortsBefore(key, t, i, j) ==
    IF key[i].k = "nan" THEN key[j].k = "nan" /\ i < j
    ELSE IF key[j].k = "nan" THEN TRUE
    ELSE IF FGreater(key[i], key[j]) THEN TRUE
    ELSE IF FGreater(key[j], key[i]) THEN FALSE
    ELSE IF t = "input" THEN i < j ELSE i > j

\* a plausible slip: rows whose key is NaN dropped
sort_values_dropna(rows, t) ==
    LET n      == Len(rows)
        key    == [i \in 1..n |-> rows[i].per100k]
        keep   == { i \in 1..n : key[i].k # "nan" }
        pos(i) == 1 + Cardinality({ j \in keep : SortsBefore(key, t, j, i) })
    IN [p \in 1..Cardinality(keep) |-> rows[CHOOSE i \in keep : pos(i) = p]]

\* line 83: out_df.sort_values(by=per_col, ascending=False)
sort_values(rows, t) ==
    LET n      == Len(rows)
        key    == [i \in 1..n |-> rows[i].per100k]
        pos(i) == 1 + Cardinality({ j \in 1..n : SortsBefore(key, t, j, i) })
    IN [p \in 1..n |-> rows[CHOOSE i \in 1..n : pos(i) = p]]

\* lines 61-83: the sorted output table; row.i is the index label the row
\* keeps from df
OutTable(d, metric, pop_col, t) ==
    LET n    == NRows(d)
        rows == [i \in 1..n |->
                   LET pop  == to_numeric(d[pop_col][i])
                       mv   == fillna(to_numeric(d[metric][i]), Zero)
                       base == astype_int(fillna(to_numeric(d[metric][i]), Zero))
                   IN [i       |-> i,
                       state   |-> d[S_state][i],
                       per100k |-> Per100kOf(mv, pop),
                       pct     |-> PctOf(mv, pop),
                       base    |-> base]]
    IN sort_values(rows, t)

\* lines 70-80: the column labels of the output table
Header(metric, per_label_suffix) ==
    <<S_state, metric \o S_Per100k \o per_label_suffix,
      metric \o S_Pct \o per_label_suffix, metric>>

\* line 92: the text of the CSV, header row first, index left out
CsvOf(metric, per_label_suffix, rows) ==
    [header |-> Header(metric, per_label_suffix),
     rows   |-> [p \in 1..Len(rows) |->
                   <<rows[p].state, rows[p].per100k, rows[p].pct, rows[p].base>>]]

\* line 86: Path.mkdir(parents=True, exist_ok=True); a directory is the
\* sequence of its components
mkdir(ds, dir) == ds \cup { SubSeq(dir, 1, k) : k \in 1..Len(dir) }

\* lines 88-89
OutPath(metric, out_dir, file_suffix) ==
    [dir |-> out_dir, file |-> camel_to_kebab(metric) \o file_suffix \o S_csv]

NoPath == [dir |-> <<>>, file |-> <<>>]

\* a plausible slip: the file opened for appending
to_csv_append(fl, path, csv) ==
    IF path \in DOMAIN fl
    THEN [q \in DOMAIN fl |-> IF q = path
                              THEN [header |-> fl[q].header, rows |-> fl[q].rows \o csv.rows]
                              ELSE fl[q]]
    ELSE [q \in DOMAIN fl \cup {path} |-> IF q = path THEN csv ELSE fl[q]]

\* line 92: DataFrame.to_csv(path): the file is created or replaced
to_csv(fl, path, csv) ==
    [q \in DOMAIN fl \cup {path} |-> IF q = path THEN csv ELSE fl[q]]

\* a plausible slip: the directory made before the columns are looked at
Build_mkdir_first(d, a, t, ds, fl) ==
    IF a.pop_col \notin DOMAIN d \/ a.metric \notin DOMAIN d \/ S_state \notin DOMAIN d
    THEN [err |-> "KeyError", path |-> NoPath, out |-> <<>>,
          dirs |-> mkdir(ds, a.out_dir), files |-> fl]
    ELSE LET out  == OutTable(d, a.metric, a.pop_col, t)
             path == OutPath(a.metric, a.out_dir, a.file_suffix)
         IN [err |-> "none", path |-> path, out |-> out,
             dirs  |-> mkdir(ds, a.out_dir),
             files |-> to_csv(fl, path, CsvOf(a.metric, a.per_label_suffix, out))]

\* make_output_for_metric(df, metric, out_dir, pop_col, per_label_suffix,
\* file_suffix) on the filesystem (ds, fl): the error raised if any, the
\* path returned, out_df, and the filesystem left behind
Build(d, a, t, ds, fl) ==
    IF a.pop_col \notin DOMAIN d                                   \* line 57
    THEN [err |-> "KeyError", path |-> NoPath, out |-> <<>>, dirs |-> ds, files |-> fl]
    ELSE IF a.metric \notin DOMAIN d                               \* line 62
    THEN [err |-> "KeyError", path |-> NoPath, out |-> <<>>, dirs |-> ds, files |-> fl]
    ELSE IF S_state \notin DOMAIN d                                \* line 75
    THEN [err |-> "KeyError", path |-> NoPath, out |-> <<>>, dirs |-> ds, files |-> fl]
    ELSE LET out  == OutTable(d, a.metric, a.pop_col, t)
             path == OutPath(a.metric, a.out_dir, a.file_suffix)
         IN [err |-> "none", path |-> path, out |-> out,
             dirs  |-> mkdir(ds, a.out_dir),
             files |-> to_csv(fl, path, CsvOf(a.metric, a.per_label_suffix, out))]

----------------------------------------------------------------------------
(* Inputs *)

EmptyFiles == [q \in {} |-> 0]

Dir_all   == <<"output", "all-population">>
Dir_adult == <<"output", "adult-population">>

\* lines 112-114 and 130-137: the two calls of main
Basis_all   == [out_dir |-> Dir_all, pop_col |-> S_pop,
                per_label_suffix |-> <<>>, file_suffix |-> S_rate]
Basis_adult == [out_dir |-> Dir_adult, pop_col |-> S_adultPop,
                per_label_suffix |-> S_Adults, file_suffix |-> S_adultRate]

ArgsOf(metric, b) ==
    [metric |-> metric, out_dir |-> b.out_dir, pop_col |-> b.pop_col,
     per_label_suffix |-> b.per_label_suffix, file_suffix |-> b.file_suffix]

\* a file left by something else than this program
StaleCsv == [header |-> <<>>, rows |-> <<<<"old">>>>]

StaleFiles ==
    LET p1 == OutPath(M_allVeterans, Dir_all, S_rate)
        p2 == OutPath(M_gulfWar, Dir_adult, S_adultRate)
    IN [q \in {p1, p2} |-> StaleCsv]

\* the filesystem before the program runs: no output tree yet, or one
\* holding old files
InitialFs ==
    { [dirs |-> {}, files |-> EmptyFiles],
      [dirs |-> mkdir(mkdir({}, Dir_all), Dir_adult), files |-> StaleFiles] }

PopCells    == {Missing, Text, Num(0, 1), Num(1, 1), Num(2, 1)}
MetricCells == {Missing, Text, Num(0, 1), Num(1, 1), Num(5, 2), Num(-3, 2)}

Regions(k) == [i \in 1..k |-> UpperLetters[i]]

\* tables of up to n rows with the columns state, population, allVeterans
SmallTables(n) ==
    UNION { { [c \in {S_state, S_pop, M_allVeterans} |->
                 IF c = S_state THEN Regions(k) ELSE IF c = S_pop THEN p ELSE m]
              : p \in [1..k -> PopCells], m \in [1..k -> MetricCells] }
            : k \in 0..n }

\* the two-row table with both population columns
ExampleTable ==
    [c \in {S_state, S_pop, S_adultPop, M_allVeterans} |->
       CASE c = S_state    -> <<"A", "B">>
         [] c = S_pop      -> <<Num(1000000, 1), Num(500000, 1)>>
         [] c = S_adultPop -> <<Num(800000, 1), Num(2000, 1)>>
         [] OTHER          -> <<Num(50000, 1), Num(5000, 1)>>]

\* a table without the state column
NoStateTable ==
    [c \in {S_pop, M_allVeterans} |->
       IF c = S_pop THEN <<Num(2, 1)>> ELSE <<Num(1, 1)>>]

\* full tables of the driver's runs: every metric column present
FullTable1 ==
    [c \in {S_state, S_pop, S_adultPop} \cup MetricSet |->
       CASE c = S_state       -> <<"A", "B">>
         [] c = S_pop         -> <<Num(1000000, 1), Num(500000, 1)>>
         [] c = S_adultPop    -> <<Num(800000, 1), Num(2000, 1)>>
         [] c = M_allVeterans -> <<Num(50000, 1), Num(5000, 1)>>
         [] c = M_ww2         -> <<Text, Num(7, 1)>>
         [] OTHER             -> <<Num(10, 1), Num(5, 1)>>]

FullTable2 ==
    [c \in {S_state, S_pop, S_adultPop} \cup MetricSet |->
       CASE c = S_state       -> <<"A", "B", "C">>
         [] c = S_pop         -> <<Num(4, 1), Num(0, 1), Num(2, 1)>>
         [] c = S_adultPop    -> <<Num(2, 1), Missing, Num(2, 1)>>
         [] c = M_allVeterans -> <<Num(2, 1), Num(3, 1), Num(1, 1)>>
         [] c = M_gulfWar     -> <<Num(5, 2), Missing, Num(-3, 2)>>
         [] OTHER             -> <<Num(1, 1), Num(1, 1), Num(1, 1)>>]

Restrict(d, cols) == [c \in DOMAIN d \cap cols |-> d[c]]

\* the tables the input file may hold: any subset of the metric and
\* population columns
MainTables ==
    { Restrict(t, {S_state} \cup P \cup M) :
        t \in {FullTable1, FullTable2},
        P \in SUBSET {S_pop, S_adultPop},
        M \in SUBSET MetricSet }

TieRules == {"input", "reversed"}

----------------------------------------------------------------------------
(* Idle values of the variables a specification does not use *)

KebabIdle ==
    /\ name = <<>>
    /\ kebab = <<>>
    /\ kpc = "idle"

BuildIdle ==
    /\ args = ArgsOf(M_allVeterans, Basis_all)
    /\ out_df = <<>>
    /\ ret = [err |-> "none", path |-> NoPath]
    /\ bpc = "idle"

MainIdle ==
    /\ inputExists = TRUE
    /\ pc = "idle"
    /\ idx = 0
    /\ written_all = <<>>
    /\ written_adult = <<>>
    /\ console = <<>>
    /\ calls = <<>>
    /\ run = 0
    /\ firstRun = [dirs |-> {}, files |-> EmptyFiles]

DataIdle ==
    /\ df = NoStateTable
    /\ tie = "input"
    /\ dirs = {}
    /\ files = EmptyFiles

----------------------------------------------------------------------------
(* The normaliser alone *)

InitKebab == KebabInit /\ BuildIdle /\ MainIdle /\ DataIdle

NextKebab == Normalize /\ UNCHANGED <<df, tie, fsVars, buildVars, mainVars>>

SpecKebab == InitKebab /\ [][NextKebab]_vars

----------------------------------------------------------------------------
(* The builder alone *)

InitBuild ==
    /\ df \in SmallTables(MaxRows) \cup {ExampleTable, NoStateTable}
    /\ tie \in TieRules
    /\ \E f \in InitialFs : dirs = f.dirs /\ files = f.files
    /\ args \in { ArgsOf(m, b) : m \in {M_allVeterans, M_gulfWar},
                                 b \in {Basis_all, Basis_adult} }
    /\ out_df = <<>>
    /\ ret = [err |-> "none", path |-> NoPath]
    /\ bpc = "call"
    /\ KebabIdle
    /\ MainIdle

\* one call of make_output_for_metric
BuildCall ==
    /\ bpc = "call"
    /\ LET r == Build(df, args, tie, dirs, files) IN
         /\ out_df' = r.out
         /\ ret' = [err |-> r.err, path |-> r.path]
         /\ dirs' = r.dirs
         /\ files' = r.files
         /\ bpc' = IF r.err = "none" THEN "returned" ELSE "raised"
    /\ UNCHANGED <<df, tie, args, kebabVars, mainVars>>

NextBuild == BuildCall

SpecBuild == InitBuild /\ [][NextBuild]_vars

----------------------------------------------------------------------------
(* The driver *)

\* a plausible slip: the second loop skips without a message
WarnAdult_silent(con, metric) == con

\* line 110
WarnAll(con, metric) ==
    Append(con, <<"Warning: metric '", metric, "' not found in CSV - skipping">>)

\* line 127
WarnAdult(con, metric) ==
    Append(con, <<"Warning: metric '", metric, "' not found in CSV - skipping adult output">>)

\* lines 116 and 139
Wrote(con, path) == Append(con, <<"Wrote: ", path>>)

\* line 118
SummaryAllLine(con, n) ==
    Append(con, <<"Completed population-based outputs. Wrote ", n, " files to ", Dir_all>>)

\* line 141
SummaryAdultLine(con, n) ==
    Append(con, <<"Completed adult-population outputs. Wrote ", n, " files to ", Dir_adult>>)

\* a plausible slip: the column check left out
Absent_never(metric, d) == FALSE

\* lines 109 and 125: metric not in df.columns
Absent(metric, d) == metric \notin DOMAIN d

InitMain ==
    /\ df \in MainTables
    /\ tie \in TieRules
    /\ \E f \in InitialFs : dirs = f.dirs /\ files = f.files
    /\ inputExists \in BOOLEAN
    /\ pc = "start"
    /\ idx = 0
    /\ written_all = <<>>
    /\ written_adult = <<>>
    /\ console = <<>>
    /\ calls = <<>>
    /\ run = 1
    /\ firstRun = [dirs |-> {}, files |-> EmptyFiles]
    /\ KebabIdle
    /\ BuildIdle

\* lines 97-107: the input file is looked for and read
MainStart ==
    /\ pc = "start"
    /\ IF ~inputExists
       THEN pc' = "raised" /\ UNCHANGED <<idx, written_all>>
       ELSE pc' = "loop_all" /\ idx' = 1 /\ written_all' = <<>>
    /\ UNCHANGED <<df, tie, fsVars, inputExists, written_adult, console, calls,
                   run, firstRun, kebabVars, buildVars>>

\* lines 108-116: one iteration of the first loop
LoopAll ==
    /\ pc = "loop_all"
    /\ idx <= Len(METRICS)
    /\ LET metric == METRICS[idx] IN
       IF Absent(metric, df)
       THEN /\ console' = WarnAll(console, metric)
            /\ idx' = idx + 1
            /\ UNCHANGED <<pc, written_all, calls, fsVars>>
       ELSE LET a == ArgsOf(metric, Basis_all)
                r == Build(df, a, tie, dirs, files)
            IN /\ calls' = Append(calls, a)
               /\ dirs' = r.dirs
               /\ files' = r.files
               /\ IF r.err # "none"
                  THEN pc' = "raised" /\ UNCHANGED <<idx, written_all, console>>
                  ELSE /\ written_all' = Append(written_all, r.path)
                       /\ console' = Wrote(console, r.path)
                       /\ idx' = idx + 1
                       /\ UNCHANGED pc
    /\ UNCHANGED <<df, tie, inputExists, written_adult, run, firstRun, kebabVars, buildVars>>

\* lines 118-123: the first summary, the second loop set up
SummaryAll ==
    /\ pc = "loop_all"
    /\ idx > Len(METRICS)
    /\ console' = SummaryAllLine(console, Len(written_all))
    /\ pc' = "loop_adult"
    /\ idx' = 1
    /\ written_adult' = <<>>
    /\ UNCHANGED <<df, tie, fsVars, inputExists, written_all, calls, run, firstRun,
                   kebabVars, buildVars>>

\* lines 124-139: one iteration of the second loop
LoopAdult ==
    /\ pc = "loop_adult"
    /\ idx <= Len(METRICS)
    /\ LET metric == METRICS[idx] IN
       IF Absent(metric, df)
       THEN /\ console' = WarnAdult(console, metric)
            /\ idx' = idx + 1
            /\ UNCHANGED <<pc, written_adult, calls, fsVars>>
       ELSE LET a == ArgsOf(metric, Basis_adult)
                r == Build(df, a, tie, dirs, files)
            IN /\ calls' = Append(calls, a)
               /\ dirs' = r.dirs
               /\ files' = r.files
               /\ IF r.err # "none"
                  THEN pc' = "raised" /\ UNCHANGED <<idx, written_adult, console>>
                  ELSE /\ written_adult' = Append(written_adult, r.path)
                       /\ console' = Wrote(console, r.path)
                       /\ idx' = idx + 1
                       /\ UNCHANGED pc
    /\ UNCHANGED <<df, tie, inputExists, written_all, run, firstRun, kebabVars, buildVars>>

\* line 141: the second summary, main returns
SummaryAdult ==
    /\ pc = "loop_adult"
    /\ idx > Len(METRICS)
    /\ console' = SummaryAdultLine(console, Len(written_adult))
    /\ pc' = "done"
    /\ UNCHANGED <<df, tie, fsVars, inputExists, idx, written_all, written_adult,
                   calls, run, firstRun, kebabVars, buildVars>>

\* lines 144-145: the script is run again on the same input, in a new
\* process; firstRun keeps the filesystem the first run left
Rerun ==
    /\ pc \in {"done", "raised"}
    /\ run < MaxRuns
    /\ run' = run + 1
    /\ firstRun' = IF run = 1 THEN [dirs |-> dirs, files |-> files] ELSE firstRun
    /\ pc' = "start"
    /\ idx' = 0
    /\ written_all' = <<>>
    /\ written_adult' = <<>>
    /\ console' = <<>>
    /\ calls' = <<>>
    /\ UNCHANGED <<df, tie, fsVars, inputExists, kebabVars, buildVars>>

Next ==
    \/ MainStart
    \/ LoopAll
    \/ SummaryAll
    \/ LoopAdult
    \/ SummaryAdult
    \/ Rerun

Spec == InitMain /\ [][Next]_vars

----------------------------------------------------------------------------
(* Properties of make_output_for_metric, under SpecBuild *)

Returned == bpc = "returned"

OutRows == 1..Len(out_df)

\* the cells of the input row an output row comes from
PopCell(r)    == df[args.pop_col][r.i]
MetricCell(r) == df[args.metric][r.i]

\* the population is zero or not a number
PopZeroOrNonNumeric(r) == PopCell(r).k # "num" \/ PopCell(r).n = 0

PopPositive(r) == PopCell(r).k = "num" /\ PopCell(r).n > 0

\* C1: in a written table, of two rows with defined rates the one with the
\* strictly greater per-100k rate stands first, and every row whose
\* population is zero or non-numeric stands after all rows with defined rates.
C1_SortOrder ==
    Returned =>
      \A p \in OutRows, q \in OutRows :
        /\ ( /\ ~PopZeroOrNonNumeric(out_df[p])
             /\ ~PopZeroOrNonNumeric(out_df[q])
             /\ FGreater(out_df[p].per100k, out_df[q].per100k) ) => p < q
        /\ ( PopZeroOrNonNumeric(out_df[p]) /\ ~PopZeroOrNonNumeric(out_df[q]) ) => q < p

\* C2: a row whose population is zero or non-numeric has NaN in both rate
\* columns, whatever its metric value is.
C2_UndefinedRates ==
    Returned =>
      \A p \in OutRows :
        PopZeroOrNonNumeric(out_df[p]) =>
          out_df[p].per100k = NaN /\ out_df[p].pct = NaN

\* C3: a row with population > 0 has per100k = metric / population * 100000
\* and pct = per100k / 1000, a missing or non-numeric metric counting as 0;
\* the two-row example gives 5000 and 1000 on the total basis, 6250 and
\* 250000 on the adult basis.
C3_RateValues ==
    Returned =>
      /\ \A p \in OutRows :
           LET r == out_df[p]
               P == PopCell(r)
               M == MetricCell(r)
           IN PopPositive(r) =>
                /\ r.per100k.k = "fin"
                /\ r.pct = FDivInt(r.per100k, 1000)
                /\ M.k = "num" => FDivInt(r.per100k, 100000) = Fin(M.n * P.d, M.d * P.n)
                /\ M.k # "num" => r.per100k = Zero /\ r.pct = Zero
      /\ (df = ExampleTable /\ args.metric = M_allVeterans) =>
           \A p \in OutRows :
             LET r == out_df[p] IN
               r.per100k = CASE r.state = "A" /\ args.pop_col = S_pop -> Fin(5000, 1)
                             [] r.state = "B" /\ args.pop_col = S_pop -> Fin(1000, 1)
                             [] r.state = "A" /\ args.pop_col = S_adultPop -> Fin(6250, 1)
                             [] r.state = "B" /\ args.pop_col = S_adultPop -> Fin(250000, 1)

C3_Witness ==
    /\ Returned
    /\ \E p \in OutRows, q \in OutRows :
         /\ PopPositive(out_df[p]) /\ MetricCell(out_df[p]) = Text
         /\ out_df[p].per100k = Zero
         /\ PopCell(out_df[q]) = Num(2, 1) /\ MetricCell(out_df[q]) = Num(5, 2)
         /\ out_df[q].per100k = Fin(125000, 1) /\ out_df[q].pct = Fin(125, 1)

\* C4 as stated: the metric count column holds a non-negative integer in
\* every row for every input cell, 0 for a missing or non-numeric cell.
C4_NonNegativeCount ==
    Returned =>
      \A p \in OutRows :
        /\ out_df[p].base \in Nat
        /\ MetricCell(out_df[p]).k # "num" => out_df[p].base = 0

\* C4 as amended: the metric count column holds the cell's value truncated
\* towards zero, 0 for a missing or non-numeric cell; it is non-negative
\* when the cell is non-negative, missing or non-numeric.
C4_TruncatedCount ==
    Returned =>
      \A p \in OutRows :
        LET b == out_df[p].base
            M == MetricCell(out_df[p])
        IN /\ b \in Int
           /\ M.k # "num" => b = 0
           /\ M.k = "num" =>
                /\ Abs(b) * M.d <= Abs(M.n)
                /\ Abs(M.n) < (Abs(b) + 1) * M.d
                /\ b > 0 => M.n > 0
                /\ b < 0 => M.n < 0

C4_Witness ==
    /\ Returned
    /\ \E p \in OutRows, q \in OutRows :
         /\ MetricCell(out_df[p]) = Num(-3, 2) /\ out_df[p].base = -1
         /\ MetricCell(out_df[q]) = Num(5, 2) /\ out_df[q].base = 2

\* C5: a written table holds each input row exactly once, with its state
\* value: as many rows as the input, whatever the cells hold.
C5_SameRows ==
    Returned =>
      /\ Len(out_df) = NRows(df)
      /\ \A i \in 1..NRows(df) :
           /\ Cardinality({ p \in OutRows : out_df[p].i = i }) = 1
           /\ \A p \in OutRows : out_df[p].i = i => out_df[p].state = df[S_state][i]
      /\ Len(files[ret.path].rows) = NRows(df)
      /\ \A p \in OutRows : files[ret.path].rows[p][1] = out_df[p].state

C5_Witness ==
    /\ Returned
    /\ NRows(df) >= 2
    /\ out_df[1].i = NRows(df)
    /\ out_df[Len(out_df)].i = 1
    /\ PopCell(out_df[Len(out_df)]) = Missing
    /\ MetricCell(out_df[Len(out_df)]) = Text
    /\ PopCell(out_df[1]) = Num(1, 1)

\* C6: when the population column is absent the call raises KeyError and
\* leaves the filesystem as it was, whether or not the metric column is there.
C6_MissingPopulation ==
    [][ (bpc = "call" /\ args.pop_col \notin DOMAIN df) =>
          /\ bpc' = "raised"
          /\ ret'.err = "KeyError"
          /\ dirs' = dirs
          /\ files' = files ]_vars

C6_Witness ==
    /\ bpc = "raised"
    /\ ret.err = "KeyError"
    /\ args.pop_col \notin DOMAIN df
    /\ args.metric \in DOMAIN df
    /\ S_state \in DOMAIN df
    /\ dirs = {}

----------------------------------------------------------------------------
(* Properties of main, under Spec *)

K_allVeterans       == <<"a","l","l","-","v","e","t","e","r","a","n","s">>
K_peacetimeVeterans == <<"p","e","a","c","e","t","i","m","e","-","v","e","t","e","r","a","n","s">>
K_wartimeVeterans   == <<"w","a","r","t","i","m","e","-","v","e","t","e","r","a","n","s">>
K_ww2               == <<"w","w","2">>
K_koreanWar         == <<"k","o","r","e","a","n","-","w","a","r">>
K_vietnamWar        == <<"v","i","e","t","n","a","m","-","w","a","r">>
K_gulfWar           == <<"g","u","l","f","-","w","a","r">>

\* the kebab-case form of each metric name, written out
KebabNames ==
    <<K_allVeterans, K_peacetimeVeterans, K_wartimeVeterans, K_ww2,
      K_koreanWar, K_vietnamWar, K_gulfWar>>

MetricIdx == 1..Len(METRICS)

PresentIdx == { k \in MetricIdx : METRICS[k] \in DOMAIN df }
AbsentIdx  == MetricIdx \ PresentIdx

\* <kebab-metric>-rate.csv under all-population
FileAll(k) == [dir |-> Dir_all, file |-> KebabNames[k] \o S_rate \o S_csv]

\* <kebab-metric>-adult-rate.csv under adult-population
FileAdult(k) == [dir |-> Dir_adult, file |-> KebabNames[k] \o S_adultRate \o S_csv]

Range(q) == { q[k] : k \in 1..Len(q) }

Count(q, x) == Cardinality({ k \in 1..Len(q) : q[k] = x })

\* C7: a complete run calls the builder exactly once per present metric and
\* basis and never for an absent metric; the files written are exactly
\* <kebab-metric>-rate.csv and <kebab-metric>-adult-rate.csv of the present
\* metrics; an absent metric gives no file and does not stop the run.
C7_OneFilePerPresentMetric ==
    /\ (inputExists /\ {S_state, S_pop, S_adultPop} \subseteq DOMAIN df) => pc # "raised"
    /\ pc = "done" =>
         /\ \A k \in MetricIdx :
              /\ Count(calls, ArgsOf(METRICS[k], Basis_all)) = IF k \in PresentIdx THEN 1 ELSE 0
              /\ Count(calls, ArgsOf(METRICS[k], Basis_adult)) = IF k \in PresentIdx THEN 1 ELSE 0
         /\ Len(calls) = 2 * Cardinality(PresentIdx)
         /\ Range(written_all) = { FileAll(k) : k \in PresentIdx }
         /\ Len(written_all) = Cardinality(PresentIdx)
         /\ Range(written_adult) = { FileAdult(k) : k \in PresentIdx }
         /\ Len(written_adult) = Cardinality(PresentIdx)
         /\ \A q \in Range(written_all) \cup Range(written_adult) :
              q \in DOMAIN files /\ files[q] # StaleCsv
         /\ \A k \in AbsentIdx :
              \A q \in {FileAll(k), FileAdult(k)} :
                q \in DOMAIN files => files[q] = StaleCsv
         /\ DOMAIN files \subseteq
              { FileAll(k) : k \in MetricIdx } \cup { FileAdult(k) : k \in MetricIdx }

C7_Witness ==
    /\ pc = "done"
    /\ AbsentIdx = {4}
    /\ FileAll(7) \in Range(written_all)
    /\ FileAdult(7) \in Range(written_adult)
    /\ FileAll(4) \notin DOMAIN files

\* C9: the filesystem after a second run on the same input is the
\* filesystem the first run left: the same paths with the same content.
C9_Idempotent ==
    (pc \in {"done", "raised"} /\ run >= 2) =>
      /\ dirs = firstRun.dirs
      /\ files = firstRun.files

C9_Witness ==
    /\ pc = "done"
    /\ run = 2
    /\ Len(written_all) = 7
    /\ NRows(df) = 3
    /\ \A q \in Range(written_adult) : Len(files[q].rows) = 3

WarnLines    == { k \in 1..Len(console) : console[k][1] = "Warning: metric '" }
WroteLines   == { k \in 1..Len(console) : console[k][1] = "Wrote: " }
SummaryLines == { k \in 1..Len(console) : Len(console[k]) = 4 }

\* what C10 says of the lines other than warnings: one Wrote line per file
\* written and one summary line per basis with the count of that basis
WroteAndSummaryLines ==
    /\ Cardinality(WroteLines) = Len(written_all) + Len(written_adult)
    /\ \A q \in Range(written_all) \cup Range(written_adult) :
         Count(console, <<"Wrote: ", q>>) = 1
    /\ Cardinality(SummaryLines) = 2
    /\ Count(console, SummaryAllLine(<<>>, Len(written_all))[1]) = 1
    /\ Count(console, SummaryAdultLine(<<>>, Len(written_adult))[1]) = 1
    /\ Len(console) = Cardinality(WarnLines) + Cardinality(WroteLines) + 2

\* C10 as stated: over a complete run the console holds one warning line
\* per absent metric, one Wrote line per file written and one summary line
\* per basis with the count of files written under it.
C10_OneWarningPerAbsentMetric ==
    pc = "done" =>
      /\ Cardinality(WarnLines) = Cardinality(AbsentIdx)
      /\ WroteAndSummaryLines

\* C10 as amended: over a complete run the console holds one warning line
\* per absent metric and basis, two per absent metric, one Wrote line per
\* file written and one summary line per basis with the count of files
\* written under it.
C10_OneWarningPerAbsentMetricAndBasis ==
    pc = "done" =>
      /\ Cardinality(WarnLines) = 2 * Cardinality(AbsentIdx)
      /\ \A k \in AbsentIdx :
           /\ Count(console, WarnAll(<<>>, METRICS[k])[1]) = 1
           /\ Count(console, WarnAdult(<<>>, METRICS[k])[1]) = 1
      /\ \A k \in PresentIdx, j \in WarnLines : console[j][2] # METRICS[k]
      /\ WroteAndSummaryLines

C10_Witness ==
    /\ pc = "done"
    /\ AbsentIdx = {2, 7}
    /\ Cardinality(WarnLines) = 4
    /\ Cardinality(WroteLines) = 10

----------------------------------------------------------------------------
(* Properties of camel_to_kebab, under SpecKebab *)

\* a non-empty identifier of ASCII letters that starts with a lowercase letter
Identifier(nm) ==
    /\ nm # <<>>
    /\ \A i \in 1..Len(nm) : isupper(nm[i]) \/ islower(nm[i])
    /\ islower(nm[1])

\* the capital letters among the first i characters
Capitals(nm, i) == Cardinality({ j \in 1..i : isupper(nm[j]) })

Hyphens(s) == { j \in 1..Len(s) : s[j] = "-" }

RECURSIVE WithoutHyphens(_)
WithoutHyphens(s) ==
    IF s = <<>> THEN <<>>
    ELSE IF s[1] = "-" THEN WithoutHyphens(Tail(s))
    ELSE <<s[1]>> \o WithoutHyphens(Tail(s))

\* C8: for an identifier of ASCII letters starting in lowercase the result
\* has no capital, has one hyphen right before the lowercase form of each
\* capital of the input and nowhere else, has as many words as capitals plus
\* one, and without its hyphens is the lowercased input.
C8_Kebab ==
    kpc = "done" =>
      /\ Identifier(name) =>
           /\ \A j \in 1..Len(kebab) : ~isupper(kebab[j])
           /\ Len(kebab) = Len(name) + Capitals(name, Len(name))
           /\ \A i \in 1..Len(name) :
                /\ kebab[i + Capitals(name, i)] = lower(name[i])
                /\ isupper(name[i]) => kebab[i + Capitals(name, i) - 1] = "-"
           /\ Cardinality(Hyphens(kebab)) = Capitals(name, Len(name))
           /\ \A j \in Hyphens(kebab) :
                /\ 1 < j /\ j < Len(kebab) /\ kebab[j + 1] # "-"
                /\ \E i \in 1..Len(name) : isupper(name[i]) /\ j = i + Capitals(name, i) - 1
           /\ WithoutHyphens(kebab) = [i \in 1..Len(name) |-> lower(name[i])]
      /\ \A k \in MetricIdx : name = METRICS[k] => kebab = KebabNames[k]

C8_Witness ==
    /\ kpc = "done"
    /\ name = <<"a", "V", "W", "a">>
    /\ kebab = <<"a", "-", "v", "-", "w", "a">>

====
